---- MODULE Spec2Model ----
(***************************************************************************)
(* Model of frontend/app.js: the client-side controller of the chat        *)
(* widget.  The global variables of the script are the state; every        *)
(* handler (chiedi and its two continuations after the awaits, the speech  *)
(* recognition callbacks, toggleVoiceOutput, the notification timer) is an *)
(* action.  JavaScript runs the handlers one at a time, so each action is  *)
(* the code that runs between two suspension points.                       *)
(***************************************************************************)
EXTENDS Integers, Sequences, FiniteSets, TLC

\* ---------------------------------------------------------------- bounds
MaxCalls == 2            \* chiedi invocations explored by Spec
MaxCallsCap == 12        \* chiedi invocations explored by SpecCap
MaxInFlight == 2         \* overlapping calls explored by SpecCap
MaxFailuresCap == 1      \* failed calls explored by SpecCap
OverlapFromCap == 8      \* SpecCap overlaps calls once the history is this long
MaxNotifications == 1    \* notifications visible at the same time
MaxActivations == 4      \* attivaVoce invocations explored by SpecVoce
MaxSegmenti == 4         \* pieces of a reply text explored by SpecFormat
MaxCallsTurni == 2       \* chiedi invocations explored by SpecTurni

\* ------------------------------------------------------ program constants
MaxStorico == 10         \* app.js:107  if (storicoDomande.length > 10)
FontMax == 20            \* app.js:321  if (chatFontSize < 20)
FontMin == 10            \* app.js:329  if (chatFontSize > 10)
FontStep == 2            \* app.js:322, 330

\* ------------------------------------------------------------ text values
\* A text is a sequence of characters, so that trim() is computed.
InputTexts == { <<>>, <<" ">>, <<" ", "a", " ">> }
Transcripts == { <<"a">>, <<"c">> }

RECURSIVE TrimStart(_)
TrimStart(s) ==
  IF s # <<>> /\ Head(s) = " " THEN TrimStart(Tail(s)) ELSE s

RECURSIVE TrimEnd(_)
TrimEnd(s) ==
  IF s # <<>> /\ s[Len(s)] = " " THEN TrimEnd(SubSeq(s, 1, Len(s) - 1)) ELSE s

\* String.prototype.trim as used on line 32
trimNothing(s) == s

trim(s) == TrimEnd(TrimStart(s))

\* ------------------------------------------------------- reply payloads
\* What response.json() can resolve to.  A field is described by its
\* JavaScript type and, where the code reads it, by its value.
Payload(r_tipo, r, s_tipo, s, t_tipo) ==
  [ risposta_tipo |-> r_tipo, risposta |-> r,
    sugg_tipo |-> s_tipo, suggerimenti |-> s,
    tempo_tipo |-> t_tipo ]

NessunDato == Payload("undefined", "", "undefined", <<>>, "undefined")

Payloads ==
  { Payload("string", "R1", "undefined", <<>>, "undefined"),
    Payload("string", "R1", "array", <<>>, "undefined"),
    Payload("string", "R2", "array", << <<"b">> >>, "number"),
    \* risposta missing: formatResponse(undefined) throws in linkify
    Payload("undefined", "", "undefined", <<>>, "number"),
    \* suggerimenti is a non-empty string: .length > 0 but no forEach
    Payload("string", "R1", "string", << <<"a">> >>, "undefined"),
    \* tempo_risposta is a non-empty string: truthy but no toFixed
    Payload("string", "R1", "undefined", <<>>, "string") }

\* ------------------------------------------------------------- variables
VARIABLES
  storicoDomande,   \* line 2: sequence of [utente, ai, timestamp]
  voiceEnabled,     \* line 3
  chatFontSize,     \* line 4
  isListening,      \* line 5
  domandaValue,     \* value of the input element #domanda
  calls,            \* invocations of chiedi: locals and continuation
  rete,             \* requests handed to fetch, in order
  storico,          \* children of the element #storico, in order
  statusBar,        \* TRUE iff #statusBar is displayed
  suggestedQuestions, \* TRUE iff #suggestedQuestions is displayed
  notifications,    \* notification elements in document.body, in order
  orologio,         \* the clock read by new Date()
  synthSupported,   \* whether the platform defines speechSynthesis
  synthQueue,       \* utterances queued or playing in speechSynthesis
  recognitionSupported, \* whether the platform defines SpeechRecognition
  sessions,         \* SpeechRecognition objects created by attivaVoce
  voiceFeedback,    \* TRUE iff #voiceFeedback is displayed
  attivazioni,      \* how many times attivaVoce has been invoked
  rawText,          \* the argument of a formatResponse call
  formatted         \* what that call returned

vars == << storicoDomande, voiceEnabled, chatFontSize, isListening,
           domandaValue, calls, rete, storico, statusBar,
           suggestedQuestions, notifications, orologio, synthSupported,
           synthQueue, recognitionSupported, sessions, voiceFeedback,
           attivazioni, rawText, formatted >>

formatVars == << rawText, formatted >>
voceVars == << isListening, recognitionSupported, sessions, voiceFeedback,
               attivazioni >>
synthVars == << voiceEnabled, synthQueue >>
turnVars == << storicoDomande, calls, rete, storico, statusBar,
               suggestedQuestions, orologio >>

\* ------------------------------------------------------------- DOM helpers
Nodo(k, c) == [ kind |-> k, call |-> c ]

\* element.remove(): drops the element from the sequence of children
RemoveKind(seq, el) ==
  LET Keep(x) == x.kind # el.kind IN SelectSeq(seq, Keep)

Remove(seq, el) ==
  LET Keep(x) == x # el IN SelectSeq(seq, Keep)

Count(seq, el) ==
  LET Same(x) == x = el IN Len(SelectSeq(seq, Same))

\* lines 358-375, the part that runs at once: the element is appended
showNotification(ns, message, type) ==
  Append(ns, [ message |-> message, type |-> type ])

\* ---------------------------------------------------------- storicoDomande
\* lines 100-109: push, then shift when the length exceeds ten
SalvaNoShift(h, e) == Append(h, e)

Salva(h, e) ==
  LET pushed == Append(h, e)
  IN IF Len(pushed) > MaxStorico THEN Tail(pushed) ELSE pushed

\* ------------------------------------------------------------ speech output
\* lines 284-303: what leggiVoce leaves in the speechSynthesis queue
leggiVoceNoCancel(queue, enabled, testo) ==
  IF ~enabled THEN queue ELSE Append(queue, testo)

leggiVoce(queue, enabled, testo) ==
  IF ~enabled THEN queue ELSE << testo >>

\* --------------------------------------------------------------- chiedi
sessionId == "session_1"   \* line 6: generated once when the script loads

Call(pc, domanda, data) ==
  [ pc |-> pc, domanda |-> domanda, data |-> data ]

\* lines 122-134: the catch block, as it changes the children of #storico
\* (typingDiv.remove() is a no-op when the indicator is already gone)
CatchSilent(dom, id) == Remove(dom, Nodo("typing", id))

Catch(dom, id) ==
  Append(Remove(dom, Nodo("typing", id)), Nodo("error", id))

\* The statement of the try block (lines 75-120) that throws for a reply p,
\* or "none" when the block runs to its end.
Throws(p, enabled, synth) ==
  IF p.risposta_tipo # "string" THEN "createAIMessage"      \* line 83
  ELSE IF p.sugg_tipo = "string" /\ Len(p.suggerimenti) > 0
       THEN "showSuggestions"                                 \* line 88
  ELSE IF p.tempo_tipo = "string" THEN "showMetrics"           \* line 93
  ELSE IF enabled /\ ~synth THEN "leggiVoce"                   \* line 113
  ELSE "none"

\* lines 61-69: the request handed to fetch; JSON.stringify copies the
\* history when the call is made
RichiestaSenzaStorico(id, domanda, history) ==
  [ call |-> id, question |-> domanda, history |-> <<>>,
    session_id |-> sessionId ]

Richiesta(id, domanda, history) ==
  [ call |-> id, question |-> domanda, history |-> history,
    session_id |-> sessionId ]

\* line 117 is the last statement but one of the try block: the input is
\* cleared only when nothing was thrown before it
PulisciSempre(thrown, value) == <<>>

PulisciInput(thrown, value) == IF thrown = "none" THEN <<>> ELSE value

\* line 30: every invocation of the async function has its own locals and
\* continuation; the earlier invocations are left as they are
AccodaAnnullando(cs, c) ==
  Append([ i \in DOMAIN cs |->
             IF cs[i].pc \in {"fetch", "json"}
             THEN [ cs[i] EXCEPT !.pc = "failed" ] ELSE cs[i] ], c)

Accoda(cs, c) == Append(cs, c)

\* lines 30-69: chiedi up to the first await, for the value it reads from
\* the input element
chiediBody(value) ==
  LET domanda == trim(value)
      id == Len(calls) + 1
  IN IF domanda = <<>>
     THEN /\ notifications' =
               showNotification(notifications, "scrivi_domanda", "warning")
          /\ calls' = Accoda(calls, Call("returned", domanda, NessunDato))
          /\ UNCHANGED << storicoDomande, rete, storico, statusBar,
                          suggestedQuestions, orologio,
                          chatFontSize, formatVars, synthSupported, synthVars, voceVars >>
     ELSE /\ suggestedQuestions' = FALSE
          /\ storico' = storico \o << Nodo("user", id), Nodo("typing", id) >>
          /\ statusBar' = TRUE
          /\ rete' = Append(rete, Richiesta(id, domanda, storicoDomande))
          /\ calls' = Accoda(calls, Call("fetch", domanda, NessunDato))
          /\ UNCHANGED << storicoDomande, orologio,
                          notifications, chatFontSize, formatVars, synthSupported,
                          synthVars, voceVars >>

chiedi ==
  /\ chiediBody(domandaValue)
  /\ UNCHANGED domandaValue

\* lines 229-232: the button of a displayed suggestion writes it into the
\* input element and calls chiedi
quickAsk(question) ==
  /\ \E i \in DOMAIN storico :
       /\ storico[i].kind = "suggestions"
       /\ \E k \in DOMAIN calls[storico[i].call].data.suggerimenti :
            calls[storico[i].call].data.suggerimenti[k] = question
  /\ domandaValue' = question
  /\ chiediBody(question)

\* lines 61-73 and 122-134: the fetch promise settles.  esito is
\* "unreachable" (the promise rejects), "non2xx" (response.ok is false) or
\* "ok" (chiedi goes on to await response.json()).
fetchSettles(id, esito) ==
  /\ id \in DOMAIN calls
  /\ calls[id].pc = "fetch"
  /\ IF esito = "ok"
     THEN /\ calls' = [calls EXCEPT ![id].pc = "json"]
          /\ UNCHANGED << storico, statusBar >>
     ELSE /\ calls' = [calls EXCEPT ![id].pc = "failed"]
          /\ storico' = Catch(storico, id)
          /\ statusBar' = FALSE
  /\ domandaValue' = IF esito = "ok" THEN domandaValue
                     ELSE PulisciInput("fetch", domandaValue)
  /\ UNCHANGED << storicoDomande, rete, suggestedQuestions, orologio,
                  notifications, chatFontSize, formatVars, synthSupported,
                  synthVars, voceVars >>

\* lines 100-104: the turn saved by call id, from its own domanda and data
TurnoUltimaDomanda(cs, id, p, ts) ==
  [ utente |-> cs[Len(cs)].domanda, ai |-> p.risposta, timestamp |-> ts ]

Turno(cs, id, p, ts) ==
  [ utente |-> cs[id].domanda, ai |-> p.risposta, timestamp |-> ts ]

\* lines 75-134: response.json() settles and the rest of chiedi runs.
\* parsed = FALSE: the body is not JSON and the promise rejects.
jsonSettles(id, parsed, p) ==
  /\ id \in DOMAIN calls
  /\ calls[id].pc = "json"
  /\ LET thrown == IF parsed THEN Throws(p, voiceEnabled, synthSupported)
                   ELSE "json"
         after(stmts) == thrown \notin ({"json"} \cup stmts)
         \* lines 79-80
         dom1 == IF parsed THEN Remove(storico, Nodo("typing", id)) ELSE storico
         \* lines 83-84
         dom2 == IF after({"createAIMessage"})
                 THEN Append(dom1, Nodo("ai", id)) ELSE dom1
         \* lines 87-89
         dom3 == IF /\ after({"createAIMessage", "showSuggestions"})
                    /\ p.sugg_tipo = "array" /\ Len(p.suggerimenti) > 0
                 THEN Append(dom2, Nodo("suggestions", id)) ELSE dom2
         \* lines 92-94
         dom4 == IF /\ after({"createAIMessage", "showSuggestions", "showMetrics"})
                    /\ p.tempo_tipo = "number"
                 THEN Append(dom3, Nodo("metrics", id)) ELSE dom3
         saved == after({"createAIMessage", "showSuggestions", "showMetrics"})
     IN /\ storico' = IF thrown = "none" THEN dom4 ELSE Catch(dom4, id)
        /\ statusBar' = FALSE
        \* lines 100-109
        /\ IF saved
           THEN /\ storicoDomande' =
                     Salva(storicoDomande, Turno(calls, id, p, orologio))
                /\ orologio' = orologio + 1
           ELSE UNCHANGED << storicoDomande, orologio >>
        \* lines 112-114
        /\ synthQueue' = IF thrown = "none"
                         THEN leggiVoce(synthQueue, voiceEnabled, p.risposta)
                         ELSE synthQueue
        \* line 117
        /\ domandaValue' = PulisciInput(thrown, domandaValue)
        /\ calls' = [calls EXCEPT
                       ![id].pc = IF thrown = "none" THEN "done" ELSE "failed",
                       ![id].data = IF parsed THEN p ELSE NessunDato]
  /\ UNCHANGED << rete, suggestedQuestions, notifications, chatFontSize, formatVars,
                  synthSupported, voiceEnabled, voceVars >>

\* the user edits the input element #domanda (read on lines 31-32)
digita(txt) ==
  /\ domandaValue' = txt
  /\ UNCHANGED << turnVars, notifications, chatFontSize, formatVars, synthSupported,
                  synthVars, voceVars >>

\* --------------------------------------------------------- voice output
\* lines 306-317.  Where speechSynthesis is not defined, line 314 throws a
\* ReferenceError after voiceEnabled was flipped and line 315 is not reached.
toggleVoiceOutputNoCancel ==
  /\ voiceEnabled' = ~voiceEnabled
  /\ notifications' =
       showNotification(notifications,
                        IF voiceEnabled' THEN "lettura_attivata"
                        ELSE "lettura_disattivata",
                        IF voiceEnabled' THEN "success" ELSE "info")
  /\ UNCHANGED << synthQueue, turnVars, domandaValue, chatFontSize, formatVars,
                  synthSupported, voceVars >>

toggleVoiceOutput ==
  /\ voiceEnabled' = ~voiceEnabled
  /\ IF voiceEnabled'
     THEN /\ notifications' =
               showNotification(notifications, "lettura_attivata", "success")
          /\ UNCHANGED synthQueue
     ELSE IF synthSupported
     THEN /\ synthQueue' = <<>>
          /\ notifications' =
               showNotification(notifications, "lettura_disattivata", "info")
     ELSE UNCHANGED << synthQueue, notifications >>
  /\ UNCHANGED << turnVars, domandaValue, chatFontSize, formatVars, synthSupported,
                  voceVars >>

\* the platform finishes speaking the utterance at the head of the queue
utteranceEnds ==
  /\ synthQueue # <<>>
  /\ synthQueue' = Tail(synthQueue)
  /\ UNCHANGED << turnVars, domandaValue, notifications, chatFontSize, formatVars,
                  synthSupported, voiceEnabled, voceVars >>

\* lines 372-374: the 3-second timer of the oldest notification fires
notificationExpires ==
  /\ notifications # <<>>
  /\ notifications' = Tail(notifications)
  /\ UNCHANGED << turnVars, domandaValue, chatFontSize, formatVars, synthSupported,
                  synthVars, voceVars >>

\* --------------------------------------------------------- voice capture
\* A SpeechRecognition object is "capturing" from start() until its final
\* result or its error event, then "final" or "error" until the platform
\* delivers its end event, then "ended".  When start() throws (line 275:
\* InvalidStateError and the like) the object is "unstarted" and the platform
\* delivers no event to it.
Avvio(avvio) == IF avvio = "throws" THEN "unstarted" ELSE "capturing"

\* lines 235-276
attivaVoceNoGuard(avvio) ==
  IF ~recognitionSupported
  THEN /\ notifications' =
            showNotification(notifications, "voce_non_supportata", "error")
       /\ UNCHANGED << isListening, sessions, voiceFeedback >>
  ELSE /\ voiceFeedback' = TRUE
       /\ isListening' = TRUE
       /\ sessions' = Append(sessions, Avvio(avvio))
       /\ UNCHANGED notifications

attivaVoceBody(avvio) ==
  IF ~recognitionSupported
  THEN /\ notifications' =
            showNotification(notifications, "voce_non_supportata", "error")
       /\ UNCHANGED << isListening, sessions, voiceFeedback >>
  ELSE IF isListening
  THEN UNCHANGED << isListening, sessions, voiceFeedback, notifications >>
  ELSE /\ voiceFeedback' = TRUE
       /\ isListening' = TRUE
       /\ sessions' = Append(sessions, Avvio(avvio))
       /\ UNCHANGED notifications

attivaVoce(avvio) ==
  /\ attivaVoceBody(avvio)
  /\ attivazioni' = attivazioni + 1
  /\ UNCHANGED << turnVars, domandaValue, chatFontSize, formatVars, synthSupported,
                  synthVars, recognitionSupported >>

\* lines 254-262: recognition.onresult of session s
onresult(s, transcript, isFinal) ==
  /\ s \in DOMAIN sessions
  /\ sessions[s] = "capturing"
  /\ domandaValue' = transcript
  /\ IF isFinal
     THEN /\ voiceFeedback' = FALSE
          /\ isListening' = FALSE
          /\ sessions' = [sessions EXCEPT ![s] = "final"]
     ELSE UNCHANGED << voiceFeedback, isListening, sessions >>
  /\ UNCHANGED << turnVars, notifications, chatFontSize, formatVars, synthSupported,
                  synthVars, recognitionSupported, attivazioni >>

\* lines 264-268: recognition.onerror of session s
onerror(s) ==
  /\ s \in DOMAIN sessions
  /\ sessions[s] = "capturing"
  /\ voiceFeedback' = FALSE
  /\ isListening' = FALSE
  /\ notifications' =
       showNotification(notifications, "errore_riconoscimento", "error")
  /\ sessions' = [sessions EXCEPT ![s] = "error"]
  /\ UNCHANGED << turnVars, domandaValue, chatFontSize, formatVars, synthSupported,
                  synthVars, recognitionSupported, attivazioni >>

\* lines 270-273: recognition.onend of session s, the last event of a session
onend(s) ==
  /\ s \in DOMAIN sessions
  /\ sessions[s] \in {"capturing", "final", "error"}
  /\ voiceFeedback' = FALSE
  /\ isListening' = FALSE
  /\ sessions' = [sessions EXCEPT ![s] = "ended"]
  /\ UNCHANGED << turnVars, domandaValue, notifications, chatFontSize, formatVars,
                  synthSupported, synthVars, recognitionSupported,
                  attivazioni >>

\* ------------------------------------------------------------ font size
\* lines 320-326
AumentaOltre(f) == IF f <= FontMax THEN f + FontStep ELSE f

Aumenta(f) == IF f < FontMax THEN f + FontStep ELSE f

\* lines 328-334
Diminuisci(f) == IF f > FontMin THEN f - FontStep ELSE f

aumentaFontChat ==
  /\ chatFontSize' = Aumenta(chatFontSize)
  /\ UNCHANGED << turnVars, domandaValue, notifications, synthSupported,
                  synthVars, voceVars, formatVars >>

diminuisciFontChat ==
  /\ chatFontSize' = Diminuisci(chatFontSize)
  /\ UNCHANGED << turnVars, domandaValue, notifications, synthSupported,
                  synthVars, voceVars, formatVars >>

\* ------------------------------------------------------ formatResponse
\* A text is a sequence of characters.  The markup the replacements insert
\* is kept as one element per tag: none of the tags holds a match of the
\* later patterns (their digits are followed by a quote or by a letter,
\* and no digit precedes their colon), so a tag is never matched or split.
Cifre == { "0", "1", "2", "3", "4", "5", "6", "7", "8", "9" }

LinkOpen == "<a href=\""
LinkMid == "\" target=\"_blank\" class=\"text-blue-600 underline hover:text-blue-700\">"
LinkClose == "</a>"
TelOpen == "<span class=\"font-semibold text-blue-600\">"
OraOpen == "<span class=\"font-semibold\">"
SpanClose == "</span>"
Sirena == "U+1F6A8"
Cornetta == "U+1F4DE"

\* \d{n} at position i
IsDigits(t, i, n) ==
  /\ i + n - 1 <= Len(t)
  /\ \A k \in i..(i + n - 1) : t[k] \in Cifre

\* \s{n} at position i, n being 0 or 1
IsSpaces(t, i, n) == n = 0 \/ (i <= Len(t) /\ t[i] = " ")

\* line 185: https?:\/\/ at position i, its length or 0
SchemeLen(t, i) ==
  IF /\ i + 6 <= Len(t)
     /\ SubSeq(t, i, i + 6) = << "h", "t", "t", "p", ":", "/", "/" >>
  THEN 7
  ELSE IF /\ i + 7 <= Len(t)
          /\ SubSeq(t, i, i + 7) = << "h", "t", "t", "p", "s", ":", "/", "/" >>
  THEN 8
  ELSE 0

\* line 185: the greedy [^\s<>]+ from position i; the last position it
\* takes, i - 1 when it takes none
RECURSIVE UrlEnd(_, _)
UrlEnd(t, i) ==
  IF i <= Len(t) /\ t[i] \notin { " ", "<", ">" }
  THEN UrlEnd(t, i + 1)
  ELSE i - 1

\* line 187: url.replace(/[.,!?)]*$/, '')
RECURSIVE cleanUrl(_)
cleanUrl(url) ==
  IF url # <<>> /\ url[Len(url)] \in { ".", ",", "!", "?", ")" }
  THEN cleanUrl(SubSeq(url, 1, Len(url) - 1))
  ELSE url

\* line 188
Link(url) == << LinkOpen >> \o url \o << LinkMid >> \o url \o << LinkClose >>

\* lines 184-190: every match, left to right, is replaced by its link
RECURSIVE linkifyFrom(_, _)
linkifyFrom(t, i) ==
  IF i > Len(t)
  THEN <<>>
  ELSE LET n == SchemeLen(t, i)
           e == UrlEnd(t, i + n)
       IN IF n > 0 /\ e >= i + n
          THEN Link(cleanUrl(SubSeq(t, i, e))) \o linkifyFrom(t, e + 1)
          ELSE << t[i] >> \o linkifyFrom(t, i + 1)

linkify(text) == linkifyFrom(text, 1)

\* line 171: \d{3,4}\s?\d{3,4}\s?\d{3,4} at position i.  A try fixes how
\* much each quantifier takes; the matcher prefers the longer take of the
\* earlier quantifier, which is the order of TelRank.
TelTries == {3, 4} \X {0, 1} \X {3, 4} \X {0, 1} \X {3, 4}

TelMatches(t, i, c) ==
  /\ IsDigits(t, i, c[1])
  /\ IsSpaces(t, i + c[1], c[2])
  /\ IsDigits(t, i + c[1] + c[2], c[3])
  /\ IsSpaces(t, i + c[1] + c[2] + c[3], c[4])
  /\ IsDigits(t, i + c[1] + c[2] + c[3] + c[4], c[5])

TelRank(c) ==
  (4 - c[1]) * 16 + (1 - c[2]) * 8 + (4 - c[3]) * 4 + (1 - c[4]) * 2 + (4 - c[5])

\* length of the match at position i, 0 when there is none
TelLen(t, i) ==
  LET ok == { c \in TelTries : TelMatches(t, i, c) }
  IN IF ok = {}
     THEN 0
     ELSE LET c == CHOOSE c \in ok : \A d \in ok : TelRank(c) <= TelRank(d)
          IN c[1] + c[2] + c[3] + c[4] + c[5]

\* line 171
RECURSIVE telefoniFrom(_, _)
telefoniFrom(t, i) ==
  IF i > Len(t)
  THEN <<>>
  ELSE LET n == TelLen(t, i)
       IN IF n > 0
          THEN << TelOpen >> \o SubSeq(t, i, i + n - 1) \o << SpanClose >>
                 \o telefoniFrom(t, i + n)
          ELSE << t[i] >> \o telefoniFrom(t, i + 1)

\* line 174: \d{1,2}:\d{2} at position i, its length or 0
OraLen(t, i) ==
  IF /\ IsDigits(t, i, 2)
     /\ i + 2 <= Len(t) /\ t[i + 2] = ":"
     /\ IsDigits(t, i + 3, 2)
  THEN 5
  ELSE IF /\ IsDigits(t, i, 1)
          /\ i + 1 <= Len(t) /\ t[i + 1] = ":"
          /\ IsDigits(t, i + 2, 2)
  THEN 4
  ELSE 0

\* line 174
RECURSIVE orariFrom(_, _)
orariFrom(t, i) ==
  IF i > Len(t)
  THEN <<>>
  ELSE LET n == OraLen(t, i)
       IN IF n > 0
          THEN << OraOpen >> \o SubSeq(t, i, i + n - 1) \o << SpanClose >>
                 \o orariFrom(t, i + n)
          ELSE << t[i] >> \o orariFrom(t, i + 1)

\* the i flag of line 177, for the letters of its pattern
Minuscola(c) ==
  CASE c = "P" -> "p" [] c = "R" -> "r" [] c = "O" -> "o" [] c = "N" -> "n"
    [] c = "T" -> "t" [] c = "S" -> "s" [] c = "C" -> "c" [] OTHER -> c

ProntoSoccorso ==
  << "p", "r", "o", "n", "t", "o", " ", "s", "o", "c", "c", "o", "r", "s", "o" >>

Cup == << "C", "U", "P" >>

MatchesAt(t, i, pat, ci) ==
  /\ i + Len(pat) - 1 <= Len(t)
  /\ \A k \in 1..Len(pat) :
       (IF ci THEN Minuscola(t[i + k - 1]) ELSE t[i + k - 1]) = pat[k]

\* lines 177-178: every occurrence of a literal pattern is replaced
RECURSIVE sostituisci(_, _, _, _, _)
sostituisci(t, i, pat, ci, con) ==
  IF i > Len(t)
  THEN <<>>
  ELSE IF MatchesAt(t, i, pat, ci)
  THEN con \o sostituisci(t, i + Len(pat), pat, ci, con)
  ELSE << t[i] >> \o sostituisci(t, i + 1, pat, ci, con)

\* lines 166-181
formatResponse(text) ==
  LET linked == linkify(text)
      tel == telefoniFrom(linked, 1)
      ore == orariFrom(tel, 1)
      ps == sostituisci(ore, 1, ProntoSoccorso, TRUE,
                        << Sirena, " ", "P" >> \o SubSeq(ProntoSoccorso, 2, 7)
                          \o << "S" >> \o SubSeq(ProntoSoccorso, 9, 15))
  IN sostituisci(ps, 1, Cup, FALSE, << Cornetta, " " >> \o Cup)

\* lines 144-146: createAIMessage formats the text of the reply
formatta ==
  /\ formatted' = formatResponse(rawText)
  /\ UNCHANGED << turnVars, domandaValue, notifications, chatFontSize, rawText,
                  synthSupported, synthVars, voceVars >>

\* ------------------------------------------------------------------ Init
\* lines 1-6 and 279: the state once the script has loaded.  The page starts
\* with an empty conversation, the status bar and the voice feedback hidden
\* and the suggested questions shown: what showStatus, attivaVoce and line
\* 42 change.  The clock advances by one at every reading (line 103), so
\* the timestamps tell the saved turns apart.
InitPagina ==
  /\ storicoDomande = <<>>
  /\ voiceEnabled = FALSE
  /\ chatFontSize = 14
  /\ isListening = FALSE
  /\ domandaValue = <<>>
  /\ calls = <<>>
  /\ rete = <<>>
  /\ storico = <<>>
  /\ statusBar = FALSE
  /\ suggestedQuestions = TRUE
  /\ notifications = <<>>
  /\ orologio = 1
  /\ synthQueue = <<>>
  /\ sessions = <<>>
  /\ voiceFeedback = FALSE
  /\ attivazioni = 0

InitState ==
  /\ InitPagina
  /\ rawText = <<>>
  /\ formatted = <<>>

Init ==
  /\ InitState
  /\ synthSupported \in BOOLEAN
  /\ recognitionSupported = TRUE

\* ------------------------------------------------------------------ Next
InFlight == { id \in DOMAIN calls : calls[id].pc \in {"fetch", "json"} }

UserTypes == \E txt \in InputTexts : digita(txt)

Chiedi ==
  /\ Len(calls) < MaxCalls
  /\ Len(notifications) < MaxNotifications
  /\ chiedi

FetchSettles ==
  \E id \in DOMAIN calls, esito \in {"unreachable", "non2xx", "ok"} :
    fetchSettles(id, esito)

JsonSettles ==
  \E id \in DOMAIN calls :
    \/ jsonSettles(id, FALSE, NessunDato)
    \/ \E p \in Payloads : jsonSettles(id, TRUE, p)

ToggleVoiceOutput ==
  /\ Len(notifications) < MaxNotifications
  /\ toggleVoiceOutput

UtteranceEnds == utteranceEnds

NotificationExpires == notificationExpires

Next ==
  \/ UserTypes
  \/ Chiedi
  \/ FetchSettles
  \/ JsonSettles
  \/ ToggleVoiceOutput
  \/ UtteranceEnds
  \/ NotificationExpires

Spec == Init /\ [][Next]_vars

\* ------------------------------------------------- Next of SpecVoce
InitVoce ==
  /\ InitState
  /\ synthSupported = TRUE
  /\ recognitionSupported \in BOOLEAN

AttivaVoce ==
  /\ attivazioni < MaxActivations
  /\ Len(notifications) < MaxNotifications
  /\ \E avvio \in {"started", "throws"} : attivaVoce(avvio)

OnResult ==
  \E s \in DOMAIN sessions, tr \in Transcripts, isFinal \in BOOLEAN :
    onresult(s, tr, isFinal)

OnError ==
  /\ Len(notifications) < MaxNotifications
  /\ \E s \in DOMAIN sessions : onerror(s)

OnEnd == \E s \in DOMAIN sessions : onend(s)

VoceUserTypes == \E txt \in InputTexts : digita(txt)

VoceNotificationExpires == notificationExpires

NextVoce ==
  \/ AttivaVoce
  \/ OnResult
  \/ OnError
  \/ OnEnd
  \/ VoceUserTypes
  \/ VoceNotificationExpires

SpecVoce == InitVoce /\ [][NextVoce]_vars

\* -------------------------------------------------- Next of SpecCap
\* A long conversation: one question text, one well-formed reply, at most
\* MaxFailuresCap failed calls, and up to MaxInFlight overlapping calls once
\* the history holds OverlapFromCap turns (Spec overlaps the early calls).
InitCap ==
  /\ InitState
  /\ synthSupported = TRUE
  /\ recognitionSupported = TRUE

Failed == { id \in DOMAIN calls : calls[id].pc = "failed" }

CapTypes ==
  /\ domandaValue = <<>>
  /\ digita(<<"a">>)

CapChiedi ==
  /\ Len(calls) < MaxCallsCap
  /\ \/ InFlight = {}
     \/ /\ Len(storicoDomande) >= OverlapFromCap
        /\ Cardinality(InFlight) < MaxInFlight
  /\ trim(domandaValue) # <<>>
  /\ chiedi

CapFetchOk == \E id \in DOMAIN calls : fetchSettles(id, "ok")

CapFetchFails ==
  /\ Cardinality(Failed) < MaxFailuresCap
  /\ \E id \in DOMAIN calls : fetchSettles(id, "non2xx")

CapJsonSettles ==
  \E id \in DOMAIN calls :
    jsonSettles(id, TRUE, Payload("string", "R1", "undefined", <<>>, "undefined"))

CapJsonFails ==
  /\ Cardinality(Failed) < MaxFailuresCap
  /\ \E id \in DOMAIN calls :
       jsonSettles(id, TRUE, Payload("string", "R1", "string", << <<"a">> >>, "undefined"))

NextCap ==
  \/ CapTypes
  \/ CapChiedi
  \/ CapFetchOk
  \/ CapFetchFails
  \/ CapJsonSettles
  \/ CapJsonFails

SpecCap == InitCap /\ [][NextCap]_vars

\* -------------------------------------------------- Next of SpecFont
\* The accessibility controls of the chat header: font size and voice
\* output, with the input field and the notification timer.
InitFont ==
  /\ InitState
  /\ synthSupported \in BOOLEAN
  /\ recognitionSupported = TRUE

AumentaFont == aumentaFontChat

DiminuisciFont == diminuisciFontChat

FontUserTypes == \E txt \in InputTexts : digita(txt)

FontToggleVoice ==
  /\ Len(notifications) < MaxNotifications
  /\ toggleVoiceOutput

FontNotificationExpires == notificationExpires

NextFont ==
  \/ AumentaFont
  \/ DiminuisciFont
  \/ FontUserTypes
  \/ FontToggleVoice
  \/ FontNotificationExpires

SpecFont == InitFont /\ [][NextFont]_vars

\* ------------------------------------------------- Next of SpecTurni
\* Overlapping turns: two question texts typed, the suggestion buttons,
\* every outcome of fetch, two well-formed replies and a body that is not
\* JSON.  The platform settles every promise it handed out (the transport
\* answers or times out), which is the fairness of SpecTurni.
TurniTexts == { <<" ", "a", " ">>, <<"c">> }

TurniPayloads ==
  { Payload("string", "R1", "undefined", <<>>, "undefined"),
    Payload("string", "R2", "array", << <<"b">> >>, "number") }

InitTurni ==
  /\ InitState
  /\ synthSupported = TRUE
  /\ recognitionSupported = TRUE

TurniTypes == \E txt \in TurniTexts : digita(txt)

TurniChiedi ==
  /\ Len(calls) < MaxCallsTurni
  /\ trim(domandaValue) # <<>>
  /\ chiedi

TurniQuickAsk ==
  /\ Len(calls) < MaxCallsTurni
  /\ quickAsk(<<"b">>)

TurniFetchSettles ==
  \E id \in DOMAIN calls, esito \in {"unreachable", "non2xx", "ok"} :
    fetchSettles(id, esito)

TurniJsonSettles ==
  \E id \in DOMAIN calls :
    \/ jsonSettles(id, FALSE, NessunDato)
    \/ \E p \in TurniPayloads : jsonSettles(id, TRUE, p)

NextTurni ==
  \/ TurniTypes
  \/ TurniChiedi
  \/ TurniQuickAsk
  \/ TurniFetchSettles
  \/ TurniJsonSettles

SpecTurni ==
  /\ InitTurni
  /\ [][NextTurni]_vars
  /\ WF_vars(TurniFetchSettles)
  /\ WF_vars(TurniJsonSettles)

\* ------------------------------------------------- Next of SpecFormat
\* formatResponse applied to the reply texts made of at most MaxSegmenti of
\* these pieces.
Segmenti ==
  { << "h", "t", "t", "p", ":", "/", "/" >>,
    << "1", "2", "3" >>,
    << "8", ":", "3", "0" >>,
    << " " >>,
    << "." >>,
    Cup }

RECURSIVE Testi(_)
Testi(n) ==
  IF n = 0
  THEN { <<>> }
  ELSE LET corti == Testi(n - 1)
       IN corti \cup { t \o seg : t \in corti, seg \in Segmenti }

InitFormat ==
  /\ InitPagina
  /\ synthSupported = TRUE
  /\ recognitionSupported = TRUE
  /\ rawText \in Testi(MaxSegmenti)
  /\ formatted = <<>>

Formatta == formatta

NextFormat == Formatta

SpecFormat == InitFormat /\ [][NextFormat]_vars

\* ================================================================ claims
Min(a, b) == IF a < b THEN a ELSE b

Last(seq) == seq[Len(seq)]

\* first position of el among the children of #storico, 0 when absent
IndexOf(seq, el) ==
  IF \E i \in DOMAIN seq : seq[i] = el
  THEN CHOOSE i \in DOMAIN seq : seq[i] = el /\ \A j \in 1..(i - 1) : seq[j] # el
  ELSE 0

\* a reply the service contract allows: risposta is a string, suggerimenti
\* (when present) a list, tempo_risposta (when present) a number
WellFormed(p) ==
  /\ p.risposta_tipo = "string"
  /\ p.sugg_tipo # "string"
  /\ p.tempo_tipo # "string"

\* calls that received a 2xx reply with a well-formed body
Successi == { id \in DOMAIN calls : WellFormed(calls[id].data) }

Resolved(id) == calls[id].pc \in {"done", "failed"}

\* the call id makes this step: it is invoked, or one of its awaits resumes
Resolves(id) ==
  /\ id \in DOMAIN calls
  /\ calls[id].pc \in {"fetch", "json"}
  /\ calls'[id].pc \in {"done", "failed"}

Blank(txt) == \A i \in DOMAIN txt : txt[i] = " "

Invoked == Len(calls') = Len(calls) + 1

\* ---------------------------------------------------------------------
\* C1: the history never holds more than 10 turns; after n calls that got
\* a successful reply its length is min(n, 10); a turn is saved at the end,
\* and once the history is full the turn at the head is the one dropped,
\* the others keeping their order.
C1_HistoryCap ==
  /\ [](/\ Len(storicoDomande) <= MaxStorico
        /\ Len(storicoDomande) = Min(Cardinality(Successi), MaxStorico)
        /\ \A i, j \in DOMAIN storicoDomande :
             i < j => storicoDomande[i].timestamp < storicoDomande[j].timestamp)
  /\ [][storicoDomande' # storicoDomande =>
          /\ storicoDomande' # <<>>
          /\ storicoDomande' =
               IF Len(storicoDomande) < MaxStorico
               THEN Append(storicoDomande, Last(storicoDomande'))
               ELSE Append(Tail(storicoDomande), Last(storicoDomande'))]_vars

\* eleven turns were saved while calls overlapped: the first is gone
C1_Witness ==
  /\ Cardinality(Successi) > MaxStorico
  /\ Len(storicoDomande) = MaxStorico
  /\ storicoDomande[1].timestamp = 2
  /\ InFlight # {}

\* ---------------------------------------------------------------------
\* C2: a chiedi call on an empty or whitespace-only input sends no
\* request, leaves the history and the conversation area as they were
\* (no user message, no typing indicator, no status bar change) and shows
\* exactly one notification, a warning.
C2_EmptyInput ==
  [][(Invoked /\ Blank(domandaValue)) =>
       /\ rete' = rete
       /\ storicoDomande' = storicoDomande
       /\ storico' = storico
       /\ statusBar' = statusBar
       /\ suggestedQuestions' = suggestedQuestions
       /\ Len(notifications') = Len(notifications) + 1
       /\ SubSeq(notifications', 1, Len(notifications)) = notifications
       /\ Last(notifications').type = "warning"]_vars

\* chiedi has just returned on a whitespace-only input
C2_Witness ==
  /\ domandaValue = <<" ">>
  /\ calls # <<>>
  /\ Last(calls).pc = "returned"
  /\ notifications # <<>>
  /\ Last(notifications).type = "warning"

\* ---------------------------------------------------------------------
\* C3: when the fetch of a call fails (promise rejected or status not
\* 2xx) the history is left as it was and the call renders its error
\* message exactly once; a call that later succeeds saves its turn, shows
\* its reply and no error, whatever failed before it.
C3_NetworkFailure ==
  /\ [][\A id \in DOMAIN calls :
          (calls[id].pc = "fetch" /\ calls'[id].pc = "failed") =>
            /\ storicoDomande' = storicoDomande
            /\ Count(storico', Nodo("error", id)) = 1
            /\ Count(storico', Nodo("typing", id)) = 0]_vars
  /\ [](\A id \in DOMAIN calls :
          Count(storico, Nodo("error", id)) <=
            (IF calls[id].pc = "failed" THEN 1 ELSE 0))
  /\ [][\A id \in DOMAIN calls :
          (calls[id].pc = "json" /\ calls'[id].pc = "done") =>
            /\ storicoDomande' # <<>>
            /\ Last(storicoDomande').utente = calls[id].domanda
            /\ Last(storicoDomande').ai = calls'[id].data.risposta
            /\ Len(storicoDomande') = Len(storicoDomande) + 1
            /\ Count(storico', Nodo("ai", id)) = 1
            /\ Count(storico', Nodo("error", id)) = 0
            /\ Count(storico', Nodo("typing", id)) = 0
            /\ ~statusBar']_vars

\* call 1 failed in fetch, call 2 was submitted afterwards and succeeded
C3_Witness ==
  /\ Len(calls) >= 2
  /\ calls[1].pc = "failed"
  /\ calls[1].data = NessunDato
  /\ calls[2].pc = "done"
  /\ IndexOf(storico, Nodo("error", 1)) < IndexOf(storico, Nodo("user", 2))
  /\ Len(storicoDomande) = 1
  /\ storicoDomande[1].utente = calls[2].domanda

\* ---------------------------------------------------------------------
\* C4: every call with a non-empty input shows its user message before
\* its terminal message, and once resolved it has shown exactly one of the
\* reply and the error message, never both, whatever the reply holds.
C4_OneTerminalRender ==
  \A id \in DOMAIN calls :
    /\ calls[id].pc # "returned" => Count(storico, Nodo("user", id)) = 1
    /\ Resolved(id) =>
         /\ Count(storico, Nodo("ai", id))
              + Count(storico, Nodo("error", id)) = 1
         /\ \A k \in {"ai", "error"} :
              Count(storico, Nodo(k, id)) = 1 =>
                IndexOf(storico, Nodo("user", id)) < IndexOf(storico, Nodo(k, id))
    /\ ~Resolved(id) =>
         Count(storico, Nodo("ai", id)) + Count(storico, Nodo("error", id)) = 0

\* ---------------------------------------------------------------------
\* C5: a call that renders the error message has saved nothing in the
\* history, whatever made it fail.
C5_FailureSavesNothing ==
  [][\A id \in DOMAIN calls :
       Count(storico', Nodo("error", id)) > Count(storico, Nodo("error", id))
         => storicoDomande' = storicoDomande]_vars

\* ---------------------------------------------------------------------
\* C6: a chiedi call on a non-empty input sends exactly one request, no
\* request is ever sent again, and the history in the request is the
\* session history of the moment of the call, whatever completes later.
C6_OneRequest ==
  /\ [](\A id \in DOMAIN calls :
          Cardinality({ i \in DOMAIN rete : rete[i].call = id }) =
            (IF calls[id].pc = "returned" THEN 0 ELSE 1))
  /\ [][/\ SubSeq(rete', 1, Len(rete)) = rete
        /\ Len(rete') > Len(rete) => Invoked
        /\ (Invoked /\ ~Blank(domandaValue)) =>
             /\ Len(rete') = Len(rete) + 1
             /\ Last(rete').call = Len(calls')
             /\ Last(rete').history = storicoDomande
             /\ Last(rete').question = Last(calls').domanda
             /\ Last(rete').question # <<>>]_vars

\* a request that carries one turn while the session history, changed by a
\* call that completed later, holds two
C6_Witness ==
  \E i \in DOMAIN rete :
    /\ Len(rete[i].history) = 1
    /\ Len(storicoDomande) = 2
    /\ Resolved(rete[i].call)

\* ---------------------------------------------------------------------
\* C7: attivaVoce invoked while isListening is true creates no
\* SpeechRecognition object and changes nothing (but the count of
\* invocations, which is not program state).
C7_SecondActivationNoOp ==
  [][isListening =>
       /\ Len(sessions') = Len(sessions)
       /\ attivazioni' # attivazioni =>
            UNCHANGED << turnVars, synthVars, domandaValue, notifications,
                         chatFontSize, formatVars, synthSupported, isListening,
                         recognitionSupported, sessions, voiceFeedback >>]_vars

\* attivaVoce was invoked a second time while the only session captures
C7_Witness ==
  /\ isListening
  /\ sessions = << "capturing" >>
  /\ attivazioni = 2

\* ---------------------------------------------------------------------
\* C8: at most one capture session at a time is between its start and its
\* terminal event (final result, error or end), whatever the order of the
\* activations and of the platform's events.
C8_OneActiveSession ==
  Cardinality({ s \in DOMAIN sessions : sessions[s] = "capturing" }) <= 1

\* ---------------------------------------------------------------------
\* C9: switching the voice output off empties the speech queue in the
\* same step, and while the voice output is off nothing is queued or
\* spoken, not even for a reply whose question was sent while it was on.
C9_VoiceOffSilent ==
  /\ [](~voiceEnabled => synthQueue = <<>>)
  /\ [][(voiceEnabled /\ ~voiceEnabled') => synthQueue' = <<>>]_vars
  /\ [][(~voiceEnabled /\ ~voiceEnabled') => synthQueue' = synthQueue]_vars

\* the voice output has just been switched off on a platform that speaks,
\* a reply has been rendered since, and nothing is queued
C9_Witness ==
  /\ synthSupported
  /\ ~voiceEnabled
  /\ notifications # <<>>
  /\ Last(notifications).message = "lettura_disattivata"
  /\ calls # <<>>
  /\ Last(calls).pc = "done"
  /\ synthQueue = <<>>
  /\ domandaValue = <<>>

\* ---------------------------------------------------------------------
\* C10 as claimed: nothing clears the input before a call resolves, and
\* the step that resolves a call clears it, on success and on failure.
C10_ClearsOnBothPaths ==
  [][/\ (Invoked \/ \E id \in DOMAIN calls :
                      calls[id].pc = "fetch" /\ calls'[id].pc = "json")
          => domandaValue' = domandaValue
     /\ \A id \in DOMAIN calls : Resolves(id) => domandaValue' = <<>>]_vars

\* C10 as amended: nothing clears the input before a call resolves; the
\* step that ends a call on the success path clears it, and the step that
\* ends a call on the failure path leaves it as it was.
C10_ClearsOnSuccessOnly ==
  [][/\ (Invoked \/ \E id \in DOMAIN calls :
                      calls[id].pc = "fetch" /\ calls'[id].pc = "json")
          => domandaValue' = domandaValue
     /\ \A id \in DOMAIN calls :
          /\ (Resolves(id) /\ calls'[id].pc = "done") => domandaValue' = <<>>
          /\ (Resolves(id) /\ calls'[id].pc = "failed")
               => domandaValue' = domandaValue]_vars

\* call 1 succeeded and cleared the input; the question of call 2, which
\* failed, is still in the input
C10_Witness ==
  /\ Len(calls) = 2
  /\ calls[1].pc = "done"
  /\ calls[2].pc = "failed"
  /\ domandaValue # <<>>
  /\ trim(domandaValue) = calls[2].domanda
  /\ IndexOf(storico, Nodo("ai", 1)) < IndexOf(storico, Nodo("user", 2))

\* ---------------------------------------------------------------------
\* C11: at most one set of follow-up suggestions is displayed in the
\* conversation, and it is the one of the latest reply rendered.
Renders(k) == { i \in DOMAIN storico : storico[i].kind = k }

C11_SuggestionsReplaced ==
  /\ Cardinality(Renders("suggestions")) <= 1
  /\ \A i \in Renders("suggestions"), j \in Renders("ai") :
       j > i => storico[j].call = storico[i].call

\* ---------------------------------------------------------------------
\* C12: the typing indicator of a call is displayed from the step that
\* sends its request until the step that resolves this very call, whatever
\* other calls do meanwhile, and it is gone once the call has resolved,
\* on success and on failure.
C12_OwnTypingIndicator ==
  /\ [](\A id \in DOMAIN calls :
          Count(storico, Nodo("typing", id)) =
            (IF id \in InFlight THEN 1 ELSE 0))
  /\ [][\A id \in DOMAIN calls' :
          Count(storico', Nodo("typing", id)) > 0 =>
            \E i \in DOMAIN rete' : rete'[i].call = id]_vars

\* call 1 has resolved while call 2, submitted before that, still shows
\* its indicator
C12_Witness ==
  /\ Len(calls) = 2
  /\ Resolved(1)
  /\ 2 \in InFlight
  /\ Count(storico, Nodo("typing", 2)) = 1
  /\ IndexOf(storico, Nodo("user", 2)) < IndexOf(storico, Nodo("error", 1))

\* ---------------------------------------------------------------------
\* C13: the speech queue never holds more than one utterance, a reply
\* read aloud replaces what was playing, and while the voice output is
\* disabled a reply leaves the queue as it is.
C13_OneUtterance ==
  /\ [](Len(synthQueue) <= 1)
  /\ [][\A id \in DOMAIN calls :
          (Resolves(id) /\ calls'[id].pc = "done") =>
            synthQueue' = IF voiceEnabled
                          THEN << calls'[id].data.risposta >>
                          ELSE synthQueue]_vars

\* two replies were read aloud and only the second is in the queue
C13_Witness ==
  /\ Len(calls) = 2
  /\ calls[1].pc = "done"
  /\ calls[2].pc = "done"
  /\ calls[1].data.risposta = "R1"
  /\ calls[2].data.risposta = "R2"
  /\ IndexOf(storico, Nodo("ai", 1)) < IndexOf(storico, Nodo("ai", 2))
  /\ voiceEnabled
  /\ synthQueue = << "R2" >>

\* ---------------------------------------------------------------------
\* C19: the status bar is displayed whenever a call is in flight, and it
\* is hidden only when no call is in flight.
C19_StatusWhileInFlight ==
  /\ InFlight # {} => statusBar
  /\ ~statusBar => InFlight = {}

\* ---------------------------------------------------------------------
\* C15 (SpecTurni): a chiedi invocation started while earlier ones are in
\* flight leaves their call records, their typing indicators and their
\* requests as they are and sends its own request; every resolution
\* removes the typing indicator and renders the terminal message of the
\* call that resolves; and every call in flight is eventually resolved.
C15_Cancels == \E id \in DOMAIN calls : calls'[id] # calls[id]

C15_Adds(k) == Count(storico', k) = Count(storico, k) + 1

C15_IndependentTurns ==
  /\ [][ Invoked =>
          /\ ~C15_Cancels
          /\ \A id \in DOMAIN calls :
                Count(storico', Nodo("typing", id)) =
                  Count(storico, Nodo("typing", id))
          /\ SubSeq(rete', 1, Len(rete)) = rete
          /\ Len(rete') = Len(rete) + 1
          /\ rete'[Len(rete')].call = Len(calls') ]_vars
  /\ [][ \A id \in DOMAIN calls :
            Resolves(id) =>
              /\ Count(storico', Nodo("typing", id)) = 0
              /\ \/ C15_Adds(Nodo("ai", id))
                 \/ C15_Adds(Nodo("error", id)) ]_vars
  /\ \A id \in 1..MaxCallsTurni :
        (id \in InFlight) ~> (id \in DOMAIN calls /\ Resolved(id))

\* two turns overlapped, the later one resolved first, and both are resolved
C15_Witness ==
  /\ Len(calls) = 2
  /\ Resolved(1) /\ Resolved(2)
  /\ \E i, j, k \in DOMAIN storico :
        /\ i < j /\ j < k
        /\ storico[i] = Nodo("user", 2)
        /\ storico[j].call = 2 /\ storico[j].kind \in {"ai", "error"}
        /\ storico[k].call = 1 /\ storico[k].kind \in {"ai", "error"}

\* C16 (SpecTurni): a successful resolution appends exactly one entry to
\* the history, at its end, pairing the question the resolving call
\* submitted with the reply that call received; no other step changes the
\* history.
C16_PairsOwnQuestion ==
  [][ /\ \A id \in DOMAIN calls :
           (calls[id].pc = "json" /\ calls'[id].pc = "done") =>
             /\ Len(storicoDomande') = Len(storicoDomande) + 1
             /\ SubSeq(storicoDomande', 1, Len(storicoDomande)) = storicoDomande
             /\ Last(storicoDomande').utente = calls[id].domanda
             /\ Last(storicoDomande').ai = calls'[id].data.risposta
      /\ (storicoDomande' # storicoDomande) =>
           \E id \in DOMAIN calls : Resolves(id) ]_vars

\* the later question was answered first and is saved first
C16_Witness ==
  /\ Len(calls) = 2 /\ Len(storicoDomande) = 2
  /\ calls[1].domanda # calls[2].domanda
  /\ calls[1].data.risposta # calls[2].data.risposta
  /\ storicoDomande[1].utente = calls[2].domanda
  /\ storicoDomande[1].ai = calls[2].data.risposta
  /\ storicoDomande[2].utente = calls[1].domanda
  /\ storicoDomande[2].ai = calls[1].data.risposta

\* C17 (SpecVoce): whenever isListening is true some capture session still
\* has an event to deliver (a final result, an error or its end), the
\* events that set isListening back to false; so listening is never left
\* true for good, also when recognition.start() throws.
C17_ListeningEnds ==
  isListening =>
    \E s \in DOMAIN sessions : sessions[s] \in {"capturing", "final", "error"}

\* C18 (SpecFormat): every link that linkify emits for the text, and that
\* holds none of the keywords of lines 177-178, stands in the formatted
\* text as linkify emitted it, target and visible text untouched by the
\* telephone and time replacements.
C18_LinksOf(t) ==
  { SubSeq(t, i, j) : i \in { k \in DOMAIN t : t[k] = LinkOpen },
                      j \in { k \in DOMAIN t : t[k] = LinkClose } }

C18_Occurs(t, l) ==
  \E i \in 1..(Len(t) - Len(l) + 1) : SubSeq(t, i, i + Len(l) - 1) = l

C18_NoKeyword(l) ==
  \A i \in DOMAIN l :
    ~MatchesAt(l, i, Cup, FALSE) /\ ~MatchesAt(l, i, ProntoSoccorso, TRUE)

C18_LinksIntact ==
  formatted # <<>> =>
    \A l \in C18_LinksOf(linkify(rawText)) :
      (Len(l) > 0 /\ Count(l, LinkOpen) = 1 /\ C18_NoKeyword(l))
        => C18_Occurs(formatted, l)

\* C20 (SpecTurni): when a call resolves while the input holds a text that
\* is not blank and is the question of no call made so far (so it was put
\* there after the resolving call was submitted and has not been submitted
\* itself), the resolution leaves the input as it is.
C20_LaterInputKept ==
  [][ \A id \in DOMAIN calls :
        ( /\ Resolves(id)
          /\ ~Blank(domandaValue)
          /\ \A j \in DOMAIN calls : calls[j].domanda # trim(domandaValue) )
          => domandaValue' = domandaValue ]_vars

\* C14: the font size is always one of 10, 12, 14, 16, 18, 20; an
\* increase at 20 and a decrease at 10 leave it as it is, and any other
\* increase or decrease changes it by exactly 2.
C14_FontScale ==
  /\ [](chatFontSize \in {10, 12, 14, 16, 18, 20})
  /\ [][aumentaFontChat =>
          chatFontSize' = IF chatFontSize = 20 THEN 20 ELSE chatFontSize + 2]_vars
  /\ [][diminuisciFontChat =>
          chatFontSize' = IF chatFontSize = 10 THEN 10 ELSE chatFontSize - 2]_vars
  /\ [][chatFontSize' # chatFontSize =>
          (aumentaFontChat \/ diminuisciFontChat)]_vars

\* three increases from the initial 14 have reached the upper limit
C14_Witness == chatFontSize = 20

====
